---- MODULE Spec2Model ----
(***************************************************************************)
(* The store API of src/main.py: the handlers post_new_store,              *)
(* get_store_details, update_store and delete_store, run concurrently by   *)
(* the server's request threads over the one Deta Base collection `db`.    *)
(* A handler is one step per access to shared state (a db call, a clock    *)
(* read); post_new_store, whose only db call is the put of a fresh key, is *)
(* one step.                                                               *)
(*                                                                         *)
(* Text values are sequences of one-character strings, so that len() and   *)
(* str.upper() are computed.  A timestamp is the integer instant read from *)
(* the clock: str(datetime.now(timezone.utc)) renders the instant          *)
(* injectively, and the clock does not run backwards.                      *)
(*                                                                         *)
(* The storage client is a library outside src/.  Its part here is what    *)
(* the handlers rely on: get returns the item or None; put stores under a  *)
(* key never used before; update merges fields into an existing item and   *)
(* writes nothing for a key without one; delete removes the item.  update  *)
(* and delete may fail: by an exception (the request ends in HTTP 500), by *)
(* a value other than None from update (what line 179 tests for), or by a  *)
(* delete that leaves the item (what line 195 tests for).  get and put do  *)
(* not fail here.                                                          *)
(*                                                                         *)
(* Left out: the fields phone, latitude and longitude, which every handler *)
(* copies verbatim; the read-only routes read_root, get_all_stores and     *)
(* get_stores_by_country; the helper small_allowed, which nothing calls.   *)
(***************************************************************************)
EXTENDS Integers, Sequences, FiniteSets, TLC

VARIABLES store, nextKey, clock, pc, ctx, resp

vars == <<store, nextKey, clock, pc, ctx, resp>>

\* ------------------------------------------------------------------ bounds

\* How many keys db.put hands out in one behaviour.
MaxKeys == 1

\* The last instant of the clock; later reads return it again.
MaxTime == 2

\* ------------------------------------------------------ program constants

SMALL_ALLOWED == 3

\* The request threads.
Procs == {"p1", "p2"}

\* Python's None (a res, a response body, an unset local).
None == [none |-> TRUE]

\* An id that storage never assigned.
NoSuchId == 0

\* ----------------------------------------------------------------- values

\* The text values of the requests: none, 3 and 4 characters, and a second
\* 4-character value for the updates.
Empty == << >>
Short3 == <<"a", "b", "a">>
Lower4 == <<"a", "b", "a", "b">>
Other4 == <<"b", "a", "b", "a">>

\* str.upper() on one character of the alphabet {a, b, A, B}.
UpperChar(c) == CASE c = "a" -> "A" [] c = "b" -> "B" [] OTHER -> c

\* str.upper().
upper(s) == [i \in 1..Len(s) |-> UpperChar(s[i])]

\* Store bodies: every required text field at length 3 or 4 with a negative
\* number, the body that passes every check with a positive one, and the
\* bodies whose first or last checked field is empty.
Bodies ==
    [code_name : {Short3, Lower4}, country : {Short3, Lower4},
     city : {Short3, Lower4}, address : {Short3, Lower4},
     number : {-5}, link : {Short3, Lower4}]
    \cup
    [code_name : {Lower4}, country : {Lower4}, city : {Lower4},
     address : {Lower4}, number : {2}, link : {Lower4}]
    \cup
    [code_name : {Empty}, country : {Lower4}, city : {Lower4},
     address : {Lower4}, number : {2}, link : {Empty}]
    \cup
    [code_name : {Lower4}, country : {Lower4}, city : {Lower4},
     address : {Lower4}, number : {2}, link : {Empty}]

\* The `store: dict` bodies of a PUT: any JSON object, here one field each.
Partials ==
    { [country |-> Other4], [number |-> -1], [created_at |-> 0] }

\* ------------------------------------------------------------- db (Deta)

\* db.get(key): the item, or None when there is none.
DbGet(st, key) == IF key \in DOMAIN st THEN st[key] ELSE None

\* The item after db.update(updates, key) merged `updates` into it.
Merge(item, updates) ==
    [f \in DOMAIN item \cup DOMAIN updates |->
        IF f \in DOMAIN updates THEN updates[f] ELSE item[f]]

\* What a db.update(updates, key) may report: "ok" is the None of a write
\* that happened, "err" a value other than None, "raise" an exception; a
\* key with no item is never written.
UpdateOutcomes(st, key) ==
    IF key \in DOMAIN st THEN {"ok", "err", "raise"} ELSE {"err", "raise"}

\* The collection after db.update(updates, key) ended with `outcome`.
DbUpdate(st, updates, key, outcome) ==
    IF outcome = "ok" /\ key \in DOMAIN st
    THEN [st EXCEPT ![key] = Merge(st[key], updates)]
    ELSE st

\* The collection after db.put(data) stored `data` under the fresh `key`.
DbPut(st, data, key) ==
    [k \in DOMAIN st \cup {key} |-> IF k = key THEN data ELSE st[k]]

\* What a db.delete(key) may do: "ok" removes the item, "noop" returns
\* leaving it, "raise" is an exception.
DeleteOutcomes == {"ok", "noop", "raise"}

\* The collection after db.delete(key) ended with `outcome`.
DbDelete(st, key, outcome) ==
    IF outcome = "ok" THEN [k \in DOMAIN st \ {key} |-> st[k]] ELSE st

\* ------------------------------------------------------------ the handlers

\* The locals of a handler between its db calls.  res is "None" for Python's
\* None, "err" for any other value db.update returned.
NoCtx == [id |-> NoSuchId, res |-> "unset", req |-> None, data |-> None]

\* No answer yet.
NoResp == [op |-> "none", status |-> 0, body |-> None]

Init ==
    /\ store = [k \in {} |-> None]
    /\ nextKey = 1
    /\ clock = 1
    /\ pc = [p \in Procs |-> "idle"]
    /\ ctx = [p \in Procs |-> NoCtx]
    /\ resp = [p \in Procs |-> NoResp]

\* The length test with the boundary off by one.
TooShort_lt(value) == Len(value) < SMALL_ALLOWED

\* len(value) <= SMALL_ALLOWED, the test of each `if` of post_new_store.
TooShort(value) == Len(value) <= SMALL_ALLOWED

\* The checks of post_new_store in the order the code makes them: the tag of
\* the first HTTPException raised, or "OK".
Validate(body) ==
    IF TooShort(body.code_name) THEN "CODE_NAME"
    ELSE IF TooShort(body.country) THEN "COUNTRY"
    ELSE IF TooShort(body.city) THEN "CITY"
    ELSE IF TooShort(body.address) THEN "ADDRESS"
    ELSE IF TooShort(body.link) THEN "LINK"
    ELSE "OK"

\* The value quoted in the message of the HTTPException tagged `tag`.
Offending(body, tag) ==
    CASE tag = "CODE_NAME" -> body.code_name
      [] tag = "COUNTRY" -> body.country
      [] tag = "CITY" -> body.city
      [] tag = "ADDRESS" -> body.address
      [] tag = "LINK" -> body.link

\* Python's max, line 124.
Max(a, b) == IF a >= b THEN a ELSE b

\* The `data` dict of post_new_store; t1 and t2 are its two clock reads.
CreateData(body, t1, t2) ==
    [code_name |-> upper(body.code_name),
     country |-> upper(body.country),
     city |-> upper(body.city),
     address |-> upper(body.address),
     number |-> Max(body.number, 0),
     link |-> body.link,
     created_at |-> t1,
     updated_at |-> t2]

\* post_new_store with the put moved above the check of link.
CreateStore_early(st, body, key, t1, t2) ==
    IF Validate(body) \in {"OK", "LINK"}
    THEN DbPut(st, CreateData(body, t1, t2), key)
    ELSE st

\* The collection when post_new_store(body) returns or raises.
CreateStore(st, body, key, t1, t2) ==
    IF Validate(body) = "OK" THEN DbPut(st, CreateData(body, t1, t2), key) ELSE st

\* POST /stores.
post_new_store(p, body) ==
    /\ pc[p] = "idle"
    /\ IF Validate(body) # "OK"
       THEN /\ resp' = [resp EXCEPT ![p] =
                    [op |-> "create", status |-> 400,
                     body |-> [tag |-> Validate(body),
                               value |-> Offending(body, Validate(body))]]]
            /\ store' = CreateStore(store, body, nextKey, clock, clock)
            /\ UNCHANGED <<nextKey, clock>>
       ELSE /\ nextKey <= MaxKeys
            /\ \E t1 \in clock..MaxTime : \E t2 \in t1..MaxTime :
                 /\ store' = CreateStore(store, body, nextKey, t1, t2)
                 /\ resp' = [resp EXCEPT ![p] =
                        [op |-> "create", status |-> 200,
                         body |-> [key |-> nextKey,
                                   item |-> CreateData(body, t1, t2)]]]
                 /\ clock' = t2
            /\ nextKey' = nextKey + 1
    /\ pc' = [pc EXCEPT ![p] = "done"]
    /\ UNCHANGED ctx

\* GET /api/v1/stores/{store_id}: the try block raises nothing, so the
\* except clause is never entered and a None res falls off the end.
get_store_details(p, id) ==
    /\ pc[p] = "idle"
    /\ resp' = [resp EXCEPT ![p] =
           [op |-> "get", status |-> 200, body |-> DbGet(store, id)]]
    /\ pc' = [pc EXCEPT ![p] = "done"]
    /\ UNCHANGED <<store, nextKey, clock, ctx>>

\* The `data` dict of update_store, built from the item `req` read back;
\* t is its clock read.
UpdateData(req, t) ==
    [code_name |-> upper(req.code_name),
     country |-> upper(req.country),
     city |-> upper(req.city),
     address |-> upper(req.address),
     number |-> req.number,
     link |-> req.link,
     created_at |-> req.created_at,
     updated_at |-> t]

\* PUT /stores/{store_id}, line 161: res = db.update(store, store_id).
\* An exception leaves the handler (HTTP 500); any returned value is kept
\* in res and the handler goes on.
update_store_merge(p, id, partial, outcome) ==
    /\ pc[p] = "idle"
    /\ outcome \in UpdateOutcomes(store, id)
    /\ store' = DbUpdate(store, partial, id, outcome)
    /\ IF outcome = "raise"
       THEN /\ pc' = [pc EXCEPT ![p] = "done"]
            /\ resp' = [resp EXCEPT ![p] =
                   [op |-> "update", status |-> 500, body |-> None]]
            /\ ctx' = [ctx EXCEPT ![p] = [NoCtx EXCEPT !.id = id]]
       ELSE /\ pc' = [pc EXCEPT ![p] = "upd_get"]
            /\ ctx' = [ctx EXCEPT ![p] =
                   [NoCtx EXCEPT !.id = id,
                                 !.res = IF outcome = "ok" THEN "None" ELSE "err"]]
            /\ UNCHANGED resp
    /\ UNCHANGED <<nextKey, clock>>

\* Line 163: req = db.get(store_id).  req["code_name"] on None raises
\* TypeError (HTTP 500).
update_store_get(p) ==
    /\ pc[p] = "upd_get"
    /\ IF DbGet(store, ctx[p].id) = None
       THEN /\ pc' = [pc EXCEPT ![p] = "done"]
            /\ resp' = [resp EXCEPT ![p] =
                   [op |-> "update", status |-> 500, body |-> None]]
            /\ UNCHANGED ctx
       ELSE /\ pc' = [pc EXCEPT ![p] = "upd_now"]
            /\ ctx' = [ctx EXCEPT ![p].req = DbGet(store, ctx[p].id)]
            /\ UNCHANGED resp
    /\ UNCHANGED <<store, nextKey, clock>>

\* Lines 164-176: data is built from req and stamped with the clock.
update_store_now(p) ==
    /\ pc[p] = "upd_now"
    /\ \E t \in clock..MaxTime :
         /\ ctx' = [ctx EXCEPT ![p].data = UpdateData(ctx[p].req, t),
                               ![p].req = None]
         /\ clock' = t
    /\ pc' = [pc EXCEPT ![p] = "upd_put"]
    /\ UNCHANGED <<store, nextKey, resp>>

\* The second write made conditional on the item still being the one read:
\* a compare-and-swap that leaves a changed item alone.
Rewrite_cas(st, data, key, outcome) ==
    IF /\ outcome = "ok"
       /\ key \in DOMAIN st
       /\ st[key].number = data.number
       /\ st[key].created_at = data.created_at
       /\ upper(st[key].country) = data.country
    THEN DbUpdate(st, data, key, outcome)
    ELSE st

\* The collection after line 177, res = db.update(data, store_id).
Rewrite(st, data, key, outcome) == DbUpdate(st, data, key, outcome)

\* Lines 177-180: the second write, and the only check of res.
update_store_put(p, outcome) ==
    /\ pc[p] = "upd_put"
    /\ outcome \in UpdateOutcomes(store, ctx[p].id)
    /\ store' = Rewrite(store, ctx[p].data, ctx[p].id, outcome)
    /\ IF outcome = "raise"
       THEN /\ pc' = [pc EXCEPT ![p] = "done"]
            /\ resp' = [resp EXCEPT ![p] =
                   [op |-> "update", status |-> 500, body |-> None]]
            /\ ctx' = [ctx EXCEPT ![p].data = None]
       ELSE IF outcome = "err"
       THEN /\ pc' = [pc EXCEPT ![p] = "done"]
            /\ resp' = [resp EXCEPT ![p] =
                   [op |-> "update", status |-> 400,
                    body |-> [detail |-> "Invalid to update"]]]
            /\ ctx' = [ctx EXCEPT ![p].data = None, ![p].res = "err"]
       ELSE /\ pc' = [pc EXCEPT ![p] = "upd_ret"]
            /\ ctx' = [ctx EXCEPT ![p].data = None, ![p].res = "None"]
            /\ UNCHANGED resp
    /\ UNCHANGED <<nextKey, clock>>

\* Line 182: return db.get(store_id).
update_store_return(p) ==
    /\ pc[p] = "upd_ret"
    /\ pc' = [pc EXCEPT ![p] = "done"]
    /\ resp' = [resp EXCEPT ![p] =
           [op |-> "update", status |-> 200, body |-> DbGet(store, ctx[p].id)]]
    /\ UNCHANGED <<store, nextKey, clock, ctx>>

\* DELETE /stores/{store_id}, line 192: db.delete(store_id).
delete_store_delete(p, id, outcome) ==
    /\ pc[p] = "idle"
    /\ outcome \in DeleteOutcomes
    /\ store' = DbDelete(store, id, outcome)
    /\ ctx' = [ctx EXCEPT ![p] = [NoCtx EXCEPT !.id = id]]
    /\ IF outcome = "raise"
       THEN /\ pc' = [pc EXCEPT ![p] = "done"]
            /\ resp' = [resp EXCEPT ![p] =
                   [op |-> "delete", status |-> 500, body |-> None]]
       ELSE /\ pc' = [pc EXCEPT ![p] = "del_get"]
            /\ UNCHANGED resp
    /\ UNCHANGED <<nextKey, clock>>

\* delete_store answering without looking at what it read back.
Confirms_always(res) == TRUE

\* Whether delete_store answers with its message for the res read back.
Confirms(res) == res = None

\* Lines 193-196: the read-back; with an item still there the handler falls
\* off its end and answers null.
delete_store_get(p) ==
    /\ pc[p] = "del_get"
    /\ pc' = [pc EXCEPT ![p] = "done"]
    /\ resp' = [resp EXCEPT ![p] =
           [op |-> "delete", status |-> 200,
            body |-> IF Confirms(DbGet(store, ctx[p].id))
                     THEN [msg |-> "is deleted", id |-> ctx[p].id]
                     ELSE None]]
    /\ UNCHANGED <<store, nextKey, clock, ctx>>

\* The response has been sent; the thread takes the next request.
Respond(p) ==
    /\ pc[p] = "done"
    /\ pc' = [pc EXCEPT ![p] = "idle"]
    /\ ctx' = [ctx EXCEPT ![p] = NoCtx]
    /\ resp' = [resp EXCEPT ![p] = NoResp]
    /\ UNCHANGED <<store, nextKey, clock>>

\* The ids a client can send: the keys handed out so far, and one that
\* never was.
Ids == {NoSuchId} \cup 1..(nextKey - 1)

Next ==
    \E p \in Procs :
        \/ \E body \in Bodies : post_new_store(p, body)
        \/ \E id \in Ids : get_store_details(p, id)
        \/ \E id \in Ids : \E partial \in Partials :
               \E outcome \in {"ok", "err", "raise"} :
                  update_store_merge(p, id, partial, outcome)
        \/ update_store_get(p)
        \/ update_store_now(p)
        \/ \E outcome \in {"ok", "err", "raise"} : update_store_put(p, outcome)
        \/ update_store_return(p)
        \/ \E id \in Ids : \E outcome \in DeleteOutcomes :
               delete_store_delete(p, id, outcome)
        \/ delete_store_get(p)
        \/ Respond(p)

Spec == Init /\ [][Next]_vars

\* ------------------------------------------------------------------ claims

\* The required text fields in the order the contract checks them.
FieldOrder == <<"code_name", "country", "city", "address", "link">>

FieldTag ==
    [code_name |-> "CODE_NAME", country |-> "COUNTRY", city |-> "CITY",
     address |-> "ADDRESS", link |-> "LINK"]

\* The positions in FieldOrder of the fields of `body` of length <= 3.
ShortPositions(body) == {i \in 1..Len(FieldOrder) : Len(body[FieldOrder[i]]) <= 3}

FirstShort(body) ==
    FieldOrder[CHOOSE i \in ShortPositions(body) :
                   \A j \in ShortPositions(body) : i <= j]

\* C1: every create request is answered 400, naming the first field (in the
\* order code_name, country, city, address, link) whose length is <= 3 and
\* quoting that field's value alone, when there is such a field, and passes
\* validation (200) when every field has length >= 4.
C1_ValidationOrder ==
    [][\A p \in Procs :
          (pc[p] = "idle" /\ resp'[p].op = "create") =>
          \A body \in Bodies :
          post_new_store(p, body) =>
              IF ShortPositions(body) = {}
              THEN resp'[p].status = 200
              ELSE /\ resp'[p].status = 400
                   /\ resp'[p].body =
                          [tag |-> FieldTag[FirstShort(body)],
                           value |-> body[FirstShort(body)]]]_vars

\* A create was rejected for its link of exactly 3 characters, the four
\* fields before it (4 characters each) having passed.
C1_Witness ==
    \E p \in Procs :
        /\ pc[p] = "done"
        /\ resp[p].op = "create"
        /\ resp[p].status = 400
        /\ resp[p].body = [tag |-> "LINK", value |-> Short3]

\* C2: a create request answered with a 400 validation error leaves the
\* collection as it was: the same keys, the same content under each.
C2_RejectedCreateWritesNothing ==
    [][\A p \in Procs :
          (pc[p] = "idle" /\ resp'[p].op = "create" /\ resp'[p].status = 400)
              => store' = store]_vars

\* A create was rejected while the collection held a record.
C2_Witness ==
    \E p \in Procs :
        /\ pc[p] = "done"
        /\ resp[p].op = "create"
        /\ resp[p].status = 400
        /\ DOMAIN store # {}

Quiescent == \A p \in Procs : pc[p] \in {"idle", "done"}

\* C3: with no request in flight and none answered with an error, every
\* stored record has number >= 0, whatever the sign of the numbers sent.
C3_NumberNeverNegative ==
    (Quiescent /\ \A p \in Procs : resp[p].status \in {0, 200})
        => \A k \in DOMAIN store : store[k].number >= 0

\* C4: with no request in flight (update requests that ended in an error
\* included), code_name, country, city and address of every stored record
\* equal their own upper-cased form.
C4_StoredUpperCased ==
    Quiescent =>
        \A k \in DOMAIN store :
            \A f \in {"code_name", "country", "city", "address"} :
                store[k][f] = upper(store[k][f])

\* C5: no step of any request changes the created_at of a record that stays
\* in the collection.
C5_CreatedAtNeverRewritten ==
    [][\A k \in DOMAIN store \cap DOMAIN store' :
          store'[k].created_at = store[k].created_at]_vars

\* C6: a point lookup that found no record under the id answered 404.
C6_MissingIdIs404 ==
    \A p \in Procs :
        (pc[p] = "done" /\ resp[p].op = "get" /\ resp[p].body = None)
            => resp[p].status = 404

\* C7: once a write step of an update has reported failure, the request has
\* been answered with 400 "Invalid to update".
C7_FailedWriteIs400 ==
    \A p \in Procs :
        ctx[p].res = "err"
            => /\ pc[p] = "done"
               /\ resp[p].status = 400
               /\ resp[p].body = [detail |-> "Invalid to update"]

\* C8: when delete_store answers "Store {id} is deleted" the collection holds
\* no record under id, and a key that has lost its record never has one
\* again, whatever the other requests do (an update of that id in flight
\* included), so every later lookup of id returns no record.
C8_DeletedStaysDeleted ==
    [][/\ \A p \in Procs :
            (pc[p] = "del_get" /\ resp'[p].body # None)
                => /\ resp'[p].body.id \notin DOMAIN store'
                   /\ DbGet(store', resp'[p].body.id) = None
       /\ \A k \in 1..(nextKey - 1) :
            k \notin DOMAIN store => k \notin DOMAIN store']_vars

\* A delete of key 1 has been confirmed while an update of key 1, begun
\* before it, still has its second write to make.
C8_Witness ==
    \E p \in Procs : \E q \in Procs \ {p} :
        /\ pc[p] = "done"
        /\ resp[p].op = "delete"
        /\ resp[p].body = [msg |-> "is deleted", id |-> 1]
        /\ pc[q] = "upd_put"
        /\ ctx[q].id = 1

\* C9: the record a successful create stores has created_at = updated_at.
C9_CreateStampsEqual ==
    \A p \in Procs :
        (pc[p] = "done" /\ resp[p].op = "create" /\ resp[p].status = 200)
            => resp[p].body.item.created_at = resp[p].body.item.updated_at

\* C10: the second write of an update is made without a version check: when
\* it succeeds, every field of the stored record is the value the request
\* computed from the record it read earlier, whatever has been written to
\* the record since that read (last write wins).
C10_SecondWriteWins ==
    [][\A p \in Procs :
          (pc[p] = "upd_put" /\ pc'[p] = "upd_ret")
              => \A f \in DOMAIN ctx[p].data :
                     store'[ctx[p].id][f] = ctx[p].data[f]]_vars

\* A lost update: both threads hold the 200 answer of an update of key 1;
\* q's answer shows the number -1 it wrote, p's the country it wrote, and
\* the stored record has p's country but no longer q's number.
C10_Witness ==
    \E p \in Procs : \E q \in Procs \ {p} :
        /\ pc[p] = "done" /\ pc[q] = "done"
        /\ resp[p].op = "update" /\ resp[q].op = "update"
        /\ resp[p].status = 200 /\ resp[q].status = 200
        /\ resp[p].body # None /\ resp[q].body # None
        /\ resp[q].body.number = -1
        /\ resp[p].body.country = upper(Other4)
        /\ 1 \in DOMAIN store
        /\ store[1].country = upper(Other4)
        /\ store[1].number # -1

\* A reader between the two writes of an update: q's lookup returned a
\* record whose country is the merged text, not yet upper-cased, and whose
\* updated_at is still the one p found, while p has its rewrite to make.
C10_ReaderSeesIntermediate ==
    \E p \in Procs : \E q \in Procs \ {p} :
        /\ pc[p] = "upd_put"
        /\ pc[q] = "done" /\ resp[q].op = "get" /\ resp[q].body # None
        /\ resp[q].body.country = Other4
        /\ resp[q].body.updated_at < ctx[p].data.updated_at

====
